---- MODULE Spec2Model ----
(***************************************************************************)
(* Observer / Observable / Interface of main.ts.                           *)
(*                                                                         *)
(* Two specifications share the variables:                                 *)
(*   Spec           an Observable built over a list of accepted event      *)
(*                  types, and a few Observers, driven through subscribe,  *)
(*                  unsubscribe, notifyAllSubscribers, _update,            *)
(*                  setCustomUpdate and unsetCustomUpdate;                 *)
(*   SpecInterface  an Interface (its InstructionObservable and its five   *)
(*                  InstructionObservers), driven through the three touch  *)
(*                  listeners and on / addEventListener /                  *)
(*                  removeEventListener.                                   *)
(*                                                                         *)
(* A JavaScript array is a sequence whose elements are observers or Hole:  *)
(* `delete a[i]` leaves a hole and keeps a.length, for...of visits holes   *)
(* (yielding undefined), indexOf skips them.                               *)
(***************************************************************************)
EXTENDS Integers, Sequences, FiniteSets, TLC

VARIABLES
    acceptedEventTypes,  \* Observable.acceptedEventTypes : sequence of tags
    subscribers,         \* Observable.subscribers : tag -> array of observers
    acceptedEventType,   \* Observer.acceptedEventType, per observer
    customUpdate,        \* Observer.customUpdate, per observer (or Undefined)
    touchState,          \* Interface._touchState
    gesture,             \* the signals since the latest touchstart
    call,                \* the last call made: operation and arguments
    result,              \* how the last call ended: Ok or the error thrown
    trace,               \* what the last call invoked, in order
    subscribed,          \* history: per tag, the observers subscribed and not
                         \* unsubscribed since, in subscription order
    unsubscribed         \* history: per tag, the observers that some
                         \* unsubscribe call was issued for while they were
                         \* subscribed

vars == <<acceptedEventTypes, subscribers, acceptedEventType, customUpdate,
          touchState, gesture, call, result, trace, subscribed, unsubscribed>>

----------------------------------------------------------------------------
(* Bounds *)

\* most subscribe calls that succeed on one Observable
MaxSubs == 3

----------------------------------------------------------------------------
(* Values *)

Undefined == "undefined"
Hole == "<empty>"
NullData == [isNull |-> TRUE]

Ok == "ok"
UnacceptedEventTypesError == "UnacceptedEventTypesError"
NoSubscribersError == "NoSubscribersError"
ObserverNotFound == "Error: Could not remove Observer: Observer not found."
TagMismatch == "Error: Unnaccepted event type for Observer"
TypeError == "TypeError"
CallbackError == "CallbackError"

SlideThreshold == 50

InstructionEventType ==
    {"slide_left", "slide_right", "slide_up", "slide_down", "single_touch"}

\* the list of accepted event types with "double touch" in it
InstructionEventTypes_WithDoubleTouch ==
    <<"slide_left", "slide_right", "slide_up", "slide_down", "single_touch",
      "double touch">>

InstructionEventTypes ==
    <<"slide_left", "slide_right", "slide_up", "slide_down", "single_touch">>

Range(s) == {s[i] : i \in 1..Len(s)}

\* a tag no Observable of the model accepts
UnknownTag == "double touch"

\* the accepted lists an Observable is constructed with under Spec
AcceptedChoices == {<<"slide_left">>, <<"slide_left", "slide_right">>}

\* the tags calls are made with: the accepted ones, one that an Observable
\* may or may not accept, and one that none accepts
TagInputs == Range(acceptedEventTypes) \cup {"slide_right", UnknownTag}

\* the Observers that exist under Spec
Observers == {"o1", "o2"}

\* the callbacks given to Observers; cbThrow throws when called
Callbacks == {"cb1", "cbThrow"}

Throws(cb) == cb = "cbThrow"

\* the data notifyAllSubscribers is called with under Spec
Data == {[isNull |-> FALSE, value |-> 1], [isNull |-> FALSE, value |-> 2]}

\* the client coordinates the touch events deliver
Coords == {0, 50, 101}

NoCall == [op |-> "none", eventType |-> Undefined, observer |-> Undefined,
           data |-> NullData]

----------------------------------------------------------------------------
(* Arrays *)

\* Array.prototype.includes
includes(arr, x) == \E i \in 1..Len(arr) : arr[i] = x

\* Array.prototype.indexOf (1-based; 0 when absent); holes never match
indexOf(arr, x) ==
    IF \E i \in 1..Len(arr) : arr[i] = x /\ arr[i] # Hole
    THEN CHOOSE i \in 1..Len(arr) :
            /\ arr[i] = x /\ arr[i] # Hole
            /\ \A j \in 1..(i - 1) : ~(arr[j] = x /\ arr[j] # Hole)
    ELSE 0

\* delete arr[i]: the slot becomes a hole, the length stays
deleteAt(arr, i) ==
    IF i \in 1..Len(arr) THEN [arr EXCEPT ![i] = Hole] ELSE arr

\* the observers of an array, holes left out
Compact(arr) == SelectSeq(arr, LAMBDA x : x # Hole)

TotalLen(subs) ==
    LET RECURSIVE Sum(_)
        Sum(S) == IF S = {} THEN 0
                  ELSE LET t == CHOOSE t \in S : TRUE
                       IN Len(subs[t]) + Sum(S \ {t})
    IN Sum(DOMAIN subs)

----------------------------------------------------------------------------
(* Observer *)

Entry(kind, o, cb, payload) ==
    [kind |-> kind, observer |-> o, callback |-> cb, payload |-> payload]

\* _update calling the callback before it compares the tags
_update_CallbackFirst(o, data) ==
    IF customUpdate[o] # Undefined
    THEN [result |-> IF Throws(customUpdate[o]) THEN CallbackError
                     ELSE IF data.eventType # acceptedEventType[o]
                          THEN TagMismatch ELSE Ok,
          trace |-> <<Entry("update", o, Undefined, data),
                      Entry("callback", o, customUpdate[o], data)>>]
    ELSE [result |-> IF data.eventType # acceptedEventType[o]
                     THEN TagMismatch ELSE Ok,
          trace |-> <<Entry("update", o, Undefined, data)>>]

\* _update calling customUpdate without testing that it is set
_update_NoGuard(o, data) ==
    IF data.eventType # acceptedEventType[o]
    THEN [result |-> TagMismatch,
          trace |-> <<Entry("update", o, Undefined, data)>>]
    ELSE IF customUpdate[o] = Undefined
    THEN [result |-> TypeError,
          trace |-> <<Entry("update", o, Undefined, data)>>]
    ELSE [result |-> IF Throws(customUpdate[o]) THEN CallbackError ELSE Ok,
          trace |-> <<Entry("update", o, Undefined, data),
                      Entry("callback", o, customUpdate[o], data)>>]

\* Observer._update: the error thrown (or Ok) and what was invoked
_update(o, data) ==
    IF data.eventType # acceptedEventType[o]
    THEN [result |-> TagMismatch,
          trace |-> <<Entry("update", o, Undefined, data)>>]
    ELSE IF customUpdate[o] = Undefined
    THEN [result |-> Ok,
          trace |-> <<Entry("update", o, Undefined, data),
                      Entry("warn", o, Undefined, data)>>]
    ELSE [result |-> IF Throws(customUpdate[o]) THEN CallbackError ELSE Ok,
          trace |-> <<Entry("update", o, Undefined, data),
                      Entry("callback", o, customUpdate[o], data)>>]

----------------------------------------------------------------------------
(* Observable *)

\* a constructor that creates no array
Observable_Lazy(accepted) == [t \in {} |-> <<>>]

\* Observable.constructor: an empty array for every accepted event type
Observable(accepted) == [t \in Range(accepted) |-> <<>>]

\* subscribe ignoring an event type that is not accepted
subscribe_Lenient(subs, eventType, observer) ==
    IF ~includes(acceptedEventTypes, eventType)
    THEN [result |-> Ok, subscribers |-> subs]
    ELSE [result |-> Ok,
          subscribers |->
              [subs EXCEPT ![eventType] = Append(@, observer)]]

\* subscribe putting the observer at the front of the array
subscribe_Unshift(subs, eventType, observer) ==
    IF ~includes(acceptedEventTypes, eventType)
    THEN [result |-> UnacceptedEventTypesError, subscribers |-> subs]
    ELSE [result |-> Ok,
          subscribers |->
              [subs EXCEPT ![eventType] = <<observer>> \o @]]

\* subscribe pushing the observer onto the array of every tag
subscribe_AllTags(subs, eventType, observer) ==
    IF ~includes(acceptedEventTypes, eventType)
    THEN [result |-> UnacceptedEventTypesError, subscribers |-> subs]
    ELSE [result |-> Ok,
          subscribers |-> [t \in DOMAIN subs |-> Append(subs[t], observer)]]

\* Observable.subscribe
subscribe(subs, eventType, observer) ==
    IF ~includes(acceptedEventTypes, eventType)
    THEN [result |-> UnacceptedEventTypesError, subscribers |-> subs]
    ELSE [result |-> Ok,
          subscribers |->
              [subs EXCEPT ![eventType] = Append(@, observer)]]

\* the loop of unsubscribe leaving after the first slot it deleted
unsubscribeLoop_FirstOnly(arr, observer, i) ==
    IF includes(arr, observer)
    THEN deleteAt(arr, indexOf(arr, observer))
    ELSE arr

\* the for...of loop of Observable.unsubscribe, from position i on
RECURSIVE unsubscribeLoop(_, _, _)
unsubscribeLoop(arr, observer, i) ==
    IF i > Len(arr) THEN arr
    ELSE IF arr[i] = observer
         THEN unsubscribeLoop(deleteAt(arr, indexOf(arr, arr[i])),
                              observer, i + 1)
         ELSE unsubscribeLoop(arr, observer, i + 1)

\* Observable.unsubscribe
unsubscribe(subs, eventType, observer) ==
    IF ~includes(acceptedEventTypes, eventType)
    THEN [result |-> UnacceptedEventTypesError, subscribers |-> subs]
    ELSE IF Len(subs[eventType]) = 0
    THEN [result |-> NoSubscribersError, subscribers |-> subs]
    ELSE [result |-> ObserverNotFound,
          subscribers |->
              [subs EXCEPT
                 ![eventType] = unsubscribeLoop(@, observer, 1)]]

\* the loop of notifyAllSubscribers going on after a failing _update
RECURSIVE notifyLoop_Isolating(_, _, _, _, _)
notifyLoop_Isolating(arr, i, eventType, data, tr) ==
    IF i > Len(arr) THEN [result |-> Ok, trace |-> tr]
    ELSE IF arr[i] = Hole THEN [result |-> TypeError, trace |-> tr]
    ELSE LET u == _update(arr[i], [eventType |-> eventType, data |-> data])
         IN notifyLoop_Isolating(arr, i + 1, eventType, data,
                                 tr \o u.trace)

\* the for...of loop of Observable.notifyAllSubscribers, from position i on
RECURSIVE notifyLoop(_, _, _, _, _)
notifyLoop(arr, i, eventType, data, tr) ==
    IF i > Len(arr) THEN [result |-> Ok, trace |-> tr]
    ELSE IF arr[i] = Hole THEN [result |-> TypeError, trace |-> tr]
    ELSE LET u == _update(arr[i], [eventType |-> eventType, data |-> data])
         IN IF u.result # Ok
            THEN [result |-> u.result, trace |-> tr \o u.trace]
            ELSE notifyLoop(arr, i + 1, eventType, data, tr \o u.trace)

\* Observable.notifyAllSubscribers
notifyAllSubscribers(subs, eventType, data) ==
    IF ~includes(acceptedEventTypes, eventType)
    THEN [result |-> UnacceptedEventTypesError, trace |-> <<>>]
    ELSE IF Len(subs[eventType]) = 0
    THEN [result |-> NoSubscribersError, trace |-> <<>>]
    ELSE notifyLoop(subs[eventType], 1, eventType, data, <<>>)

----------------------------------------------------------------------------
(* Interface *)

\* no position delivered
NoPoint == [none |-> TRUE]

\* no touchstart delivered yet
NoGesture == [start |-> NoPoint, last |-> NoPoint]

TouchState0 ==
    [touch_start |-> [x |-> 0, y |-> 0],
     touch_last_pos |-> [x |-> 0, y |-> 0],
     touch_moved |-> FALSE]

\* the classification with thresholds that are not strict
touchendEventType_NotStrict(ts) ==
    LET diferenceX == ts.touch_start.x - ts.touch_last_pos.x
        diferenceY == ts.touch_start.y - ts.touch_last_pos.y
    IN IF diferenceX >= SlideThreshold /\ ts.touch_moved THEN "slide_left"
       ELSE IF diferenceX <= -SlideThreshold /\ ts.touch_moved
            THEN "slide_right"
       ELSE IF diferenceY >= SlideThreshold /\ ts.touch_moved
            THEN "slide_up"
       ELSE IF diferenceY <= -SlideThreshold /\ ts.touch_moved
            THEN "slide_down"
       ELSE "single_touch"

\* the event type the touchend listener notifies
touchendEventType(ts) ==
    LET diferenceX == ts.touch_start.x - ts.touch_last_pos.x
        diferenceY == ts.touch_start.y - ts.touch_last_pos.y
    IN IF diferenceX > SlideThreshold /\ ts.touch_moved THEN "slide_left"
       ELSE IF diferenceX < -SlideThreshold /\ ts.touch_moved
            THEN "slide_right"
       ELSE IF diferenceY > SlideThreshold /\ ts.touch_moved THEN "slide_up"
       ELSE IF diferenceY < -SlideThreshold /\ ts.touch_moved
            THEN "slide_down"
       ELSE "single_touch"

\* the touchend listener passing the touch state with every event type
touchendData_AlwaysState(ts) == ts

\* the data the touchend listener notifies with
touchendData(ts) ==
    IF touchendEventType(ts) = "single_touch" THEN NullData ELSE ts

\* the subscribe calls with the observers of slide_up and slide_down
\* interchanged
subscribeAll_SwapUpDown(subs, i) ==
    [t \in DOMAIN subs |->
        Append(subs[t], IF t = "slide_up" THEN "slide_down"
                        ELSE IF t = "slide_down" THEN "slide_up"
                        ELSE t)]

\* the subscribe calls of Interface.constructor, from the i-th on
RECURSIVE subscribeAll(_, _)
subscribeAll(subs, i) ==
    IF i > Len(InstructionEventTypes) THEN subs
    ELSE subscribeAll(
            subscribe(subs, InstructionEventTypes[i],
                      InstructionEventTypes[i]).subscribers,
            i + 1)

----------------------------------------------------------------------------
(* History *)

\* subscribed after a subscribe call
SubscribedAfterSubscribe(eventType, observer) ==
    IF eventType \in DOMAIN subscribed
    THEN [subscribed EXCEPT ![eventType] = Append(@, observer)]
    ELSE subscribed

\* subscribed after an unsubscribe call
SubscribedAfterUnsubscribe(eventType, observer) ==
    IF eventType \in DOMAIN subscribed
    THEN [subscribed EXCEPT
            ![eventType] = SelectSeq(@, LAMBDA x : x # observer)]
    ELSE subscribed

----------------------------------------------------------------------------
(* Spec: an Observable and its Observers *)

Init ==
    /\ acceptedEventTypes \in AcceptedChoices
    /\ subscribers = Observable(acceptedEventTypes)
    /\ acceptedEventType \in
          {f \in [Observers -> Range(acceptedEventTypes)] :
              f["o1"] = acceptedEventTypes[1]}
    /\ customUpdate \in [Observers -> Callbacks \cup {Undefined}]
    /\ touchState = TouchState0
    /\ gesture = NoGesture
    /\ call = NoCall
    /\ result = Ok
    /\ trace = <<>>
    /\ subscribed = [t \in Range(acceptedEventTypes) |-> <<>>]
    /\ unsubscribed = [t \in Range(acceptedEventTypes) |-> {}]

Subscribe ==
    \E t \in TagInputs, o \in DOMAIN customUpdate :
        LET r == subscribe(subscribers, t, o) IN
        /\ TotalLen(subscribers) < MaxSubs
        /\ subscribers' = r.subscribers
        /\ result' = r.result
        /\ trace' = <<>>
        /\ call' = [op |-> "subscribe", eventType |-> t, observer |-> o,
                    data |-> NullData]
        /\ subscribed' = SubscribedAfterSubscribe(t, o)
        /\ UNCHANGED <<acceptedEventTypes, acceptedEventType, customUpdate,
                       touchState, gesture, unsubscribed>>

Unsubscribe ==
    \E t \in TagInputs, o \in DOMAIN customUpdate :
        LET r == unsubscribe(subscribers, t, o) IN
        /\ subscribers' = r.subscribers
        /\ result' = r.result
        /\ trace' = <<>>
        /\ call' = [op |-> "unsubscribe", eventType |-> t, observer |-> o,
                    data |-> NullData]
        /\ subscribed' = SubscribedAfterUnsubscribe(t, o)
        /\ unsubscribed' =
              IF t \in DOMAIN unsubscribed /\ o \in Range(subscribed[t])
              THEN [unsubscribed EXCEPT ![t] = @ \cup {o}]
              ELSE unsubscribed
        /\ UNCHANGED <<acceptedEventTypes, acceptedEventType, customUpdate,
                       touchState, gesture>>

NotifyAllSubscribers ==
    \E t \in TagInputs, d \in Data :
        LET r == notifyAllSubscribers(subscribers, t, d) IN
        /\ result' = r.result
        /\ trace' = r.trace
        /\ call' = [op |-> "notifyAllSubscribers", eventType |-> t,
                    observer |-> Undefined, data |-> d]
        /\ UNCHANGED <<acceptedEventTypes, subscribers, acceptedEventType,
                       customUpdate, touchState, gesture, subscribed, unsubscribed>>

Update ==
    \E o \in DOMAIN customUpdate, t \in TagInputs, d \in Data :
        LET r == _update(o, [eventType |-> t, data |-> d]) IN
        /\ result' = r.result
        /\ trace' = r.trace
        /\ call' = [op |-> "_update", eventType |-> t, observer |-> o,
                    data |-> d]
        /\ UNCHANGED <<acceptedEventTypes, subscribers, acceptedEventType,
                       customUpdate, touchState, gesture, subscribed, unsubscribed>>

SetCustomUpdate ==
    \E o \in DOMAIN customUpdate, cb \in Callbacks :
        /\ customUpdate' = [customUpdate EXCEPT ![o] = cb]
        /\ result' = Ok
        /\ trace' = <<>>
        /\ call' = [op |-> "setCustomUpdate", eventType |-> Undefined,
                    observer |-> o, data |-> NullData]
        /\ UNCHANGED <<acceptedEventTypes, subscribers, acceptedEventType,
                       touchState, gesture, subscribed, unsubscribed>>

UnsetCustomUpdate ==
    \E o \in DOMAIN customUpdate :
        /\ customUpdate' = [customUpdate EXCEPT ![o] = Undefined]
        /\ result' = Ok
        /\ trace' = <<>>
        /\ call' = [op |-> "unsetCustomUpdate", eventType |-> Undefined,
                    observer |-> o, data |-> NullData]
        /\ UNCHANGED <<acceptedEventTypes, subscribers, acceptedEventType,
                       touchState, gesture, subscribed, unsubscribed>>

Next ==
    \/ Subscribe
    \/ Unsubscribe
    \/ NotifyAllSubscribers
    \/ Update
    \/ SetCustomUpdate
    \/ UnsetCustomUpdate

Spec == Init /\ [][Next]_vars

----------------------------------------------------------------------------
(* SpecInstruction: an InstructionObservable and an InstructionObserver *)

\* InstructionObservable.constructor
InstructionObservable == Observable(InstructionEventTypes)

InitInstruction ==
    /\ acceptedEventTypes = InstructionEventTypes
    /\ subscribers = InstructionObservable
    /\ acceptedEventType = [o \in {"o1"} |-> "slide_left"]
    /\ customUpdate \in [{"o1"} -> Callbacks \cup {Undefined}]
    /\ touchState = TouchState0
    /\ gesture = NoGesture
    /\ call = NoCall
    /\ result = Ok
    /\ trace = <<>>
    /\ subscribed = [t \in InstructionEventType |-> <<>>]
    /\ unsubscribed = [t \in InstructionEventType |-> {}]

SpecInstruction == InitInstruction /\ [][Next]_vars

----------------------------------------------------------------------------
(* SpecReentrant: an Observable whose observers' callbacks may subscribe *)

\* the observers of SpecReentrant; the last is the one a callback subscribes
ReentrantObservers == {"o1", "o2", "o3"}
SubscribedByCallback == "o3"

\* the callbacks an observer is given: cbSubscribe is
\* d => observable.subscribe(d.eventType, o3); o3 itself never gets it, so
\* that the notification ends
ReentrantCallbacks(o) ==
    IF o = SubscribedByCallback THEN {"cb1"} ELSE {"cb1", "cbSubscribe"}

\* the subscribers after callback cb has run with data
callbackEffect(cb, subs, data) ==
    IF cb = "cbSubscribe"
    THEN subscribe(subs, data.eventType, SubscribedByCallback).subscribers
    ELSE subs

\* the loop of notifyAllSubscribers over the array as it was at the call
notifyLoopLive_Snapshot(subs, i, eventType, data, tr) ==
    LET n == Len(subs[eventType])
        RECURSIVE Loop(_, _, _)
        Loop(ss, j, t) ==
            IF j > n THEN [result |-> Ok, trace |-> t, subscribers |-> ss]
            ELSE IF ss[eventType][j] = Hole
            THEN [result |-> TypeError, trace |-> t, subscribers |-> ss]
            ELSE LET o == ss[eventType][j]
                     d == [eventType |-> eventType, data |-> data]
                     u == _update(o, d)
                 IN IF u.result # Ok
                    THEN [result |-> u.result, trace |-> t \o u.trace,
                          subscribers |-> ss]
                    ELSE Loop(IF customUpdate[o] = Undefined THEN ss
                              ELSE callbackEffect(customUpdate[o], ss, d),
                              j + 1, t \o u.trace)
    IN Loop(subs, i, tr)

\* the for...of loop of Observable.notifyAllSubscribers, from position i
\* on, over the array as the callbacks leave it: the array iterator reads
\* length at every step
RECURSIVE notifyLoopLive(_, _, _, _, _)
notifyLoopLive(subs, i, eventType, data, tr) ==
    IF i > Len(subs[eventType])
    THEN [result |-> Ok, trace |-> tr, subscribers |-> subs]
    ELSE IF subs[eventType][i] = Hole
    THEN [result |-> TypeError, trace |-> tr, subscribers |-> subs]
    ELSE LET o == subs[eventType][i]
             d == [eventType |-> eventType, data |-> data]
             u == _update(o, d)
         IN IF u.result # Ok
            THEN [result |-> u.result, trace |-> tr \o u.trace,
                  subscribers |-> subs]
            ELSE notifyLoopLive(
                    IF customUpdate[o] = Undefined THEN subs
                    ELSE callbackEffect(customUpdate[o], subs, d),
                    i + 1, eventType, data, tr \o u.trace)

\* Observable.notifyAllSubscribers with callbacks that may subscribe
notifyAllSubscribersLive(subs, eventType, data) ==
    IF ~includes(acceptedEventTypes, eventType)
    THEN [result |-> UnacceptedEventTypesError, trace |-> <<>>,
          subscribers |-> subs]
    ELSE IF Len(subs[eventType]) = 0
    THEN [result |-> NoSubscribersError, trace |-> <<>>,
          subscribers |-> subs]
    ELSE notifyLoopLive(subs, 1, eventType, data, <<>>)

InitReentrant ==
    /\ acceptedEventTypes = <<"slide_left">>
    /\ subscribers = Observable(acceptedEventTypes)
    /\ acceptedEventType = [o \in ReentrantObservers |-> "slide_left"]
    /\ customUpdate \in
          {f \in [ReentrantObservers -> {"cb1", "cbSubscribe"}] :
              \A o \in ReentrantObservers : f[o] \in ReentrantCallbacks(o)}
    /\ touchState = TouchState0
    /\ gesture = NoGesture
    /\ call = NoCall
    /\ result = Ok
    /\ trace = <<>>
    /\ subscribed = [t \in Range(acceptedEventTypes) |-> <<>>]
    /\ unsubscribed = [t \in Range(acceptedEventTypes) |-> {}]

NotifyAllSubscribersLive ==
    \E t \in TagInputs, d \in Data :
        LET r == notifyAllSubscribersLive(subscribers, t, d) IN
        /\ TotalLen(r.subscribers) <= MaxSubs
        /\ subscribers' = r.subscribers
        /\ result' = r.result
        /\ trace' = r.trace
        /\ call' = [op |-> "notifyAllSubscribers", eventType |-> t,
                    observer |-> Undefined, data |-> d]
        /\ subscribed' =
              IF t \in DOMAIN subscribed
              THEN [subscribed EXCEPT
                      ![t] = @ \o SubSeq(r.subscribers[t],
                                         Len(subscribers[t]) + 1,
                                         Len(r.subscribers[t]))]
              ELSE subscribed
        /\ UNCHANGED <<acceptedEventTypes, acceptedEventType, customUpdate,
                       touchState, gesture, unsubscribed>>

SetCustomUpdateReentrant ==
    \E o \in DOMAIN customUpdate :
        \E cb \in ReentrantCallbacks(o) :
            /\ customUpdate' = [customUpdate EXCEPT ![o] = cb]
            /\ result' = Ok
            /\ trace' = <<>>
            /\ call' = [op |-> "setCustomUpdate", eventType |-> Undefined,
                        observer |-> o, data |-> NullData]
            /\ UNCHANGED <<acceptedEventTypes, subscribers,
                           acceptedEventType, touchState, gesture,
                           subscribed, unsubscribed>>

NextReentrant ==
    \/ Subscribe
    \/ Unsubscribe
    \/ NotifyAllSubscribersLive
    \/ SetCustomUpdateReentrant

SpecReentrant == InitReentrant /\ [][NextReentrant]_vars

----------------------------------------------------------------------------
(* SpecEarlier: the Observer and the Observable of src/unnamed/part_000 *)

\* the two Errors the earlier Observable throws, told apart by message
Earlier_UnacceptedError == "Error: Unnaccepted eventType"
Earlier_NoSubscribersError == "Error: There are no subscribers"

\* the list the earlier InstructionObservable passes to super
Earlier_InstructionEventTypes == Append(InstructionEventTypes, "double touch")

\* the property key of array index i
IndexKey(i) == <<"0", "1", "2", "3", "4", "5", "6">>[i + 1]

\* key in arr, for an array: its index keys and "length"
\* (the names inherited from Array.prototype are not among the inputs)
inArray(key, arr) ==
    key \in {IndexKey(i - 1) : i \in 1..Len(arr)} \cup {"length"}

\* the tags the earlier variant is called with: list members, index keys
Earlier_TagInputs == {"slide_left", "double touch", "0", "length"}

\* DataT values: the tag travels inside the data
Earlier_Data ==
    {[eventType |-> e, data |-> 1] : e \in {"slide_left", "double touch"}}

\* Observer._update of the earlier variant
Earlier_update(o, data) ==
    IF data.eventType = acceptedEventType[o]
    THEN [result |-> IF Throws(customUpdate[o]) THEN CallbackError ELSE Ok,
          trace |-> <<Entry("update", o, Undefined, data),
                      Entry("callback", o, customUpdate[o], data)>>]
    ELSE [result |-> TagMismatch,
          trace |-> <<Entry("update", o, Undefined, data)>>]

\* Observable.subscribe of the earlier variant
Earlier_subscribe(subs, eventType, observer) ==
    IF inArray(eventType, acceptedEventTypes)
    THEN [result |-> Ok,
          subscribers |->
             [k \in DOMAIN subs \cup {eventType} |->
                 IF k = eventType
                 THEN Append(IF k \in DOMAIN subs THEN subs[k] ELSE <<>>,
                             observer)
                 ELSE subs[k]]]
    ELSE [result |-> Earlier_UnacceptedError, subscribers |-> subs]

\* Observable.unsubscribe of the earlier variant
Earlier_unsubscribe(subs, eventType, observer) ==
    IF ~inArray(eventType, acceptedEventTypes)
    THEN [result |-> Earlier_UnacceptedError, subscribers |-> subs]
    ELSE IF eventType \notin DOMAIN subs \/ Len(subs[eventType]) = 0
    THEN [result |-> Earlier_NoSubscribersError, subscribers |-> subs]
    ELSE [result |-> Ok,
          subscribers |->
             [subs EXCEPT ![eventType] = unsubscribeLoop(@, observer, 1)]]

RECURSIVE Earlier_notifyLoop(_, _, _, _)
\* the for...of loop of the earlier notifyAllSubscribers, from slot i on
Earlier_notifyLoop(arr, i, data, tr) ==
    IF i > Len(arr) THEN [result |-> Ok, trace |-> tr]
    ELSE IF arr[i] = Hole THEN [result |-> TypeError, trace |-> tr]
    ELSE LET u == Earlier_update(arr[i], data)
         IN IF u.result # Ok
            THEN [result |-> u.result, trace |-> tr \o u.trace]
            ELSE Earlier_notifyLoop(arr, i + 1, data, tr \o u.trace)

\* Observable.notifyAllSubscribers of the earlier variant
Earlier_notifyAllSubscribers(subs, eventType, data) ==
    IF ~inArray(eventType, acceptedEventTypes)
    THEN [result |-> Earlier_UnacceptedError, trace |-> <<>>]
    ELSE IF eventType \notin DOMAIN subs \/ Len(subs[eventType]) = 0
    THEN [result |-> Earlier_NoSubscribersError, trace |-> <<>>]
    ELSE Earlier_notifyLoop(subs[eventType], 1, data, <<>>)

InitEarlier ==
    /\ acceptedEventTypes \in
          {<<"slide_left", "double touch">>, Earlier_InstructionEventTypes}
    /\ subscribers = [k \in {} |-> <<>>]
    /\ acceptedEventType \in
          {f \in [Observers -> {"slide_left", "double touch"}] :
              f["o1"] = "slide_left"}
    /\ customUpdate \in [Observers -> Callbacks]
    /\ touchState = TouchState0
    /\ gesture = NoGesture
    /\ call = NoCall
    /\ result = Ok
    /\ trace = <<>>
    /\ subscribed = [k \in {} |-> <<>>]
    /\ unsubscribed = [k \in {} |-> {}]

EarlierSubscribe ==
    \E t \in Earlier_TagInputs, o \in DOMAIN customUpdate :
        LET r == Earlier_subscribe(subscribers, t, o) IN
        /\ TotalLen(subscribers) < MaxSubs
        /\ subscribers' = r.subscribers
        /\ result' = r.result
        /\ trace' = <<>>
        /\ call' = [op |-> "subscribe", eventType |-> t, observer |-> o,
                    data |-> NullData]
        /\ UNCHANGED <<acceptedEventTypes, acceptedEventType, customUpdate,
                       touchState, gesture, subscribed, unsubscribed>>

EarlierUnsubscribe ==
    \E t \in Earlier_TagInputs, o \in DOMAIN customUpdate :
        LET r == Earlier_unsubscribe(subscribers, t, o) IN
        /\ subscribers' = r.subscribers
        /\ result' = r.result
        /\ trace' = <<>>
        /\ call' = [op |-> "unsubscribe", eventType |-> t, observer |-> o,
                    data |-> NullData]
        /\ UNCHANGED <<acceptedEventTypes, acceptedEventType, customUpdate,
                       touchState, gesture, subscribed, unsubscribed>>

EarlierNotifyAllSubscribers ==
    \E t \in Earlier_TagInputs, d \in Earlier_Data :
        LET r == Earlier_notifyAllSubscribers(subscribers, t, d) IN
        /\ result' = r.result
        /\ trace' = r.trace
        /\ call' = [op |-> "notifyAllSubscribers", eventType |-> t,
                    observer |-> Undefined, data |-> d]
        /\ UNCHANGED <<acceptedEventTypes, subscribers, acceptedEventType,
                       customUpdate, touchState, gesture, subscribed, unsubscribed>>

NextEarlier ==
    \/ EarlierSubscribe
    \/ EarlierUnsubscribe
    \/ EarlierNotifyAllSubscribers
    \/ SetCustomUpdate

SpecEarlier == InitEarlier /\ [][NextEarlier]_vars

----------------------------------------------------------------------------
(* SpecInterface: an Interface *)

\* the tags on / addEventListener / removeEventListener are called with
InterfaceTagInputs == InstructionEventType \cup {UnknownTag}

\* the touchend listener with the last else missing: single_touch is
\* notified also after a slide
touchend_NoElse(subs, ts) ==
    LET eventType == touchendEventType(ts)
        data == touchendData(ts)
        r == notifyAllSubscribers(subs, eventType, data)
        r2 == notifyAllSubscribers(subs, "single_touch", NullData)
        first == <<Entry("notify", Undefined, Undefined,
                         [eventType |-> eventType, data |-> data])>>
                 \o r.trace
    IN IF eventType = "single_touch" \/ r.result # Ok
       THEN [result |-> r.result, trace |-> first]
       ELSE [result |-> r2.result,
             trace |-> first
                       \o <<Entry("notify", Undefined, Undefined,
                                  [eventType |-> "single_touch",
                                   data |-> NullData])>>
                       \o r2.trace]

\* the touchend listener: what it notifies, how it ends, what it invokes
touchend(subs, ts) ==
    LET eventType == touchendEventType(ts)
        data == touchendData(ts)
        r == notifyAllSubscribers(subs, eventType, data)
    IN [result |-> r.result,
        trace |-> <<Entry("notify", Undefined, Undefined,
                          [eventType |-> eventType, data |-> data])>>
                  \o r.trace]

\* on registering the callback only for a tag that has none
on_KeepFirst(eventType, callback) ==
    IF eventType \in DOMAIN customUpdate
    THEN [result |-> Ok,
          customUpdate |->
             IF customUpdate[eventType] = Undefined
             THEN [customUpdate EXCEPT ![eventType] = callback]
             ELSE customUpdate]
    ELSE [result |-> TypeError, customUpdate |-> customUpdate]

\* Interface.on: the callbacks of the observers after the call, and how
\* it ends (a tag without observer makes observer.setCustomUpdate a call
\* on undefined)
on(eventType, callback) ==
    IF eventType \in DOMAIN customUpdate
    THEN [result |-> Ok,
          customUpdate |-> [customUpdate EXCEPT ![eventType] = callback]]
    ELSE [result |-> TypeError, customUpdate |-> customUpdate]

\* removeEventListener doing nothing for a tag without observer
removeEventListener_Lenient(eventType) ==
    IF eventType \in DOMAIN customUpdate
    THEN [result |-> Ok,
          customUpdate |-> [customUpdate EXCEPT ![eventType] = Undefined]]
    ELSE [result |-> Ok, customUpdate |-> customUpdate]

\* removeEventListener leaving the callback in place
removeEventListener_Keep(eventType) ==
    IF eventType \in DOMAIN customUpdate
    THEN [result |-> Ok, customUpdate |-> customUpdate]
    ELSE [result |-> TypeError, customUpdate |-> customUpdate]

\* Interface.removeEventListener
removeEventListener(eventType) ==
    IF eventType \in DOMAIN customUpdate
    THEN [result |-> Ok,
          customUpdate |-> [customUpdate EXCEPT ![eventType] = Undefined]]
    ELSE [result |-> TypeError, customUpdate |-> customUpdate]

InitInterface ==
    /\ acceptedEventTypes = InstructionEventTypes
    /\ subscribers = subscribeAll(Observable(InstructionEventTypes), 1)
    /\ acceptedEventType = [t \in InstructionEventType |-> t]
    /\ customUpdate = [t \in InstructionEventType |-> Undefined]
    /\ touchState = TouchState0
    /\ gesture = NoGesture
    /\ call = NoCall
    /\ result = Ok
    /\ trace = <<>>
    /\ subscribed = [t \in InstructionEventType |-> <<t>>]
    /\ unsubscribed = [t \in InstructionEventType |-> {}]

\* a touchstart listener that leaves touch_moved as it is
TouchStart_KeepMoved ==
    \E x \in Coords, y \in Coords :
        /\ touchState' = [touchState EXCEPT
                            !.touch_start = [x |-> x, y |-> y]]
        /\ gesture' = [start |-> [x |-> x, y |-> y], last |-> NoPoint]
        /\ result' = Ok
        /\ trace' = <<>>
        /\ call' = [op |-> "touchstart", eventType |-> Undefined,
                    observer |-> Undefined, data |-> [x |-> x, y |-> y]]
        /\ UNCHANGED <<acceptedEventTypes, subscribers, acceptedEventType,
                       customUpdate, subscribed, unsubscribed>>

TouchStart ==
    \E x \in Coords, y \in Coords :
        /\ touchState' = [touchState EXCEPT
                            !.touch_start = [x |-> x, y |-> y],
                            !.touch_moved = FALSE]
        /\ gesture' = [start |-> [x |-> x, y |-> y], last |-> NoPoint]
        /\ result' = Ok
        /\ trace' = <<>>
        /\ call' = [op |-> "touchstart", eventType |-> Undefined,
                    observer |-> Undefined, data |-> [x |-> x, y |-> y]]
        /\ UNCHANGED <<acceptedEventTypes, subscribers, acceptedEventType,
                       customUpdate, subscribed, unsubscribed>>

\* a touchmove listener that moves touch_start along
TouchMove_AlsoStart ==
    \E x \in Coords, y \in Coords :
        /\ touchState' = [touch_start |-> [x |-> x, y |-> y],
                          touch_last_pos |-> [x |-> x, y |-> y],
                          touch_moved |-> TRUE]
        /\ gesture' = [gesture EXCEPT !.last = [x |-> x, y |-> y]]
        /\ result' = Ok
        /\ trace' = <<>>
        /\ call' = [op |-> "touchmove", eventType |-> Undefined,
                    observer |-> Undefined, data |-> [x |-> x, y |-> y]]
        /\ UNCHANGED <<acceptedEventTypes, subscribers, acceptedEventType,
                       customUpdate, subscribed, unsubscribed>>

TouchMove ==
    \E x \in Coords, y \in Coords :
        /\ touchState' = [touchState EXCEPT
                            !.touch_last_pos = [x |-> x, y |-> y],
                            !.touch_moved = TRUE]
        /\ gesture' = [gesture EXCEPT !.last = [x |-> x, y |-> y]]
        /\ result' = Ok
        /\ trace' = <<>>
        /\ call' = [op |-> "touchmove", eventType |-> Undefined,
                    observer |-> Undefined, data |-> [x |-> x, y |-> y]]
        /\ UNCHANGED <<acceptedEventTypes, subscribers, acceptedEventType,
                       customUpdate, subscribed, unsubscribed>>

TouchEnd ==
    LET r == touchend(subscribers, touchState) IN
    /\ result' = r.result
    /\ trace' = r.trace
    /\ call' = [op |-> "touchend", eventType |-> Undefined,
                observer |-> Undefined, data |-> NullData]
    /\ UNCHANGED <<acceptedEventTypes, subscribers, acceptedEventType,
                   customUpdate, touchState, gesture, subscribed, unsubscribed>>

On ==
    \E t \in InterfaceTagInputs, cb \in Callbacks :
        LET r == on(t, cb) IN
        /\ customUpdate' = r.customUpdate
        /\ result' = r.result
        /\ trace' = <<>>
        /\ call' = [op |-> "on", eventType |-> t, observer |-> cb,
                    data |-> NullData]
        /\ UNCHANGED <<acceptedEventTypes, subscribers, acceptedEventType,
                       touchState, gesture, subscribed, unsubscribed>>

AddEventListener ==
    \E t \in InterfaceTagInputs, cb \in Callbacks :
        LET r == on(t, cb) IN
        /\ customUpdate' = r.customUpdate
        /\ result' = r.result
        /\ trace' = <<>>
        /\ call' = [op |-> "addEventListener", eventType |-> t,
                    observer |-> cb, data |-> NullData]
        /\ UNCHANGED <<acceptedEventTypes, subscribers, acceptedEventType,
                       touchState, gesture, subscribed, unsubscribed>>

RemoveEventListener ==
    \E t \in InterfaceTagInputs :
        LET r == removeEventListener(t) IN
        /\ customUpdate' = r.customUpdate
        /\ result' = r.result
        /\ trace' = <<>>
        /\ call' = [op |-> "removeEventListener", eventType |-> t,
                    observer |-> Undefined, data |-> NullData]
        /\ UNCHANGED <<acceptedEventTypes, subscribers, acceptedEventType,
                       touchState, gesture, subscribed, unsubscribed>>

NextInterface ==
    \/ TouchStart
    \/ TouchMove
    \/ TouchEnd
    \/ On
    \/ AddEventListener
    \/ RemoveEventListener

SpecInterface == InitInterface /\ [][NextInterface]_vars

----------------------------------------------------------------------------
(* Reading a call's trace *)

\* the observers whose _update the last call invoked, in order
Updates == [i \in 1..Len(SelectSeq(trace, LAMBDA e : e.kind = "update")) |->
               SelectSeq(trace, LAMBDA e : e.kind = "update")[i].observer]

\* the callback invocations of the last call, in order
CallbackEntries == SelectSeq(trace, LAMBDA e : e.kind = "callback")

\* the notifyAllSubscribers calls the last call made, in order
NotifyEntries == SelectSeq(trace, LAMBDA e : e.kind = "notify")

Accepted(t) == includes(acceptedEventTypes, t)

IsPrefix(s, t) == Len(s) <= Len(t) /\ \A i \in 1..Len(s) : s[i] = t[i]

\* how many times x occurs in s
Occurrences(s, x) == Cardinality({i \in 1..Len(s) : s[i] = x})

\* every observer subscribed to t accepts t and has no throwing callback
WellBehaved(t) ==
    \A o \in Range(subscribed[t]) :
        acceptedEventType[o] = t /\ ~Throws(customUpdate[o])

----------------------------------------------------------------------------
(* C1 *)

\* the displacement the touchend listener computes
Dx == touchState.touch_start.x - touchState.touch_last_pos.x
Dy == touchState.touch_start.y - touchState.touch_last_pos.y

\* C1: the tag notified on touch-end is slide_left if touch_moved and
\* dx > 50; else slide_right if touch_moved and dx < -50; else slide_up if
\* touch_moved and dy > 50; else slide_down if touch_moved and dy < -50;
\* else single_touch. The thresholds are strict and horizontal wins over
\* vertical. (touchend leaves the touch state as it found it, so the state
\* after the call is the state it classified.)
C1_Classification ==
    call.op = "touchend" =>
        /\ Len(NotifyEntries) = 1
        /\ LET tag == NotifyEntries[1].payload.eventType
               moved == touchState.touch_moved
           IN /\ (moved /\ Dx > 50) => tag = "slide_left"
              /\ (moved /\ Dx < -50) => tag = "slide_right"
              /\ (moved /\ Dx \in -50..50 /\ Dy > 50) => tag = "slide_up"
              /\ (moved /\ Dx \in -50..50 /\ Dy < -50) => tag = "slide_down"
              /\ (moved /\ Dx \in -50..50 /\ Dy \in -50..50)
                    => tag = "single_touch"
              /\ ~moved => tag = "single_touch"

\* a touch-end at exactly the threshold on both axes, after a move
C1_Witness ==
    /\ call.op = "touchend"
    /\ touchState.touch_moved
    /\ Dx = 50 /\ Dy = -50
    /\ NotifyEntries[1].payload.eventType = "single_touch"

----------------------------------------------------------------------------
(* C2 *)

\* C2: unsubscribe(tag, observer) of an observer that is in the list of an
\* accepted tag completes without error; the observer-not-found error is
\* raised only when the observer is not in that tag's list.
C2_UnsubscribeOfSubscribedSucceeds ==
    [][call'.op = "unsubscribe" /\ Accepted(call'.eventType) =>
          /\ includes(subscribers[call'.eventType], call'.observer)
                => result' = Ok
          /\ result' = ObserverNotFound
                => ~includes(subscribers[call'.eventType], call'.observer)
      ]_vars

----------------------------------------------------------------------------
(* C3 *)

\* C3: once unsubscribe(tag, observer) has removed an observer, a
\* notifyAllSubscribers(tag, data) does not invoke it, invokes every other
\* observer subscribed to the tag once each in subscription order, and
\* completes without error; a second unsubscribe of the absent reference
\* fails with NoSubscribers or the observer-not-found error. (Stated for
\* observers that accept the tag and whose callbacks do not throw.)
C3_UnsubscribeRemovesExactly ==
    [][/\ ( /\ call'.op = "notifyAllSubscribers"
            /\ Accepted(call'.eventType)
            /\ unsubscribed[call'.eventType] # {}
            /\ subscribed[call'.eventType] # <<>>
            /\ WellBehaved(call'.eventType) )
          => /\ result' = Ok
             /\ Updates' = subscribed[call'.eventType]
       /\ ( /\ call'.op = "unsubscribe"
            /\ Accepted(call'.eventType)
            /\ call'.observer \in unsubscribed[call'.eventType]
            /\ ~includes(subscribed[call'.eventType], call'.observer) )
          => result' \in {NoSubscribersError, ObserverNotFound}
      ]_vars

----------------------------------------------------------------------------
(* C4 *)

\* C4: when every observer subscribed to an accepted tag has been
\* unsubscribed, notifyAllSubscribers(tag, data) and unsubscribe(tag, o)
\* fail with NoSubscribers, as for a tag that never had a subscriber.
C4_NoSubscribersAfterUnsubscribingAll ==
    [][( /\ call'.op \in {"notifyAllSubscribers", "unsubscribe"}
         /\ Accepted(call'.eventType)
         /\ subscribed[call'.eventType] = <<>> )
          => result' = NoSubscribersError
      ]_vars

----------------------------------------------------------------------------
(* C5 *)

\* C5: subscribe, unsubscribe and notifyAllSubscribers with a tag outside
\* the accepted set each fail with UnacceptedEventType, whatever the lists
\* contain, change no subscriber list and invoke no callback.
C5_UnacceptedEventType ==
    [][( /\ call'.op \in {"subscribe", "unsubscribe", "notifyAllSubscribers"}
         /\ ~Accepted(call'.eventType) )
          => /\ result' = UnacceptedEventTypesError
             /\ subscribers' = subscribers
             /\ trace' = <<>>
      ]_vars

\* a notifyAllSubscribers with an unaccepted tag on an Observable that has
\* subscribers
C5_Witness ==
    /\ call.op = "notifyAllSubscribers"
    /\ ~Accepted(call.eventType)
    /\ result = UnacceptedEventTypesError
    /\ \E t \in DOMAIN subscribers : Compact(subscribers[t]) # <<>>

----------------------------------------------------------------------------
(* C6 *)

\* C6: notifyAllSubscribers(t, data) on an accepted tag with zero
\* subscribers fails with NoSubscribers and invokes no callback; with one
\* subscribed observer o it succeeds and invokes o's callback exactly once,
\* within the call, with the payload {eventType: t, data}. (Stated for an
\* observer that accepts t and has a callback that does not throw.)
C6_NotifyEmptyThenOne ==
    (call.op = "notifyAllSubscribers" /\ Accepted(call.eventType)) =>
        LET t == call.eventType IN
        /\ subscribed[t] = <<>>
              => (result = NoSubscribersError /\ trace = <<>>)
        /\ ( /\ Len(subscribed[t]) = 1
             /\ acceptedEventType[subscribed[t][1]] = t
             /\ customUpdate[subscribed[t][1]] \in Callbacks
             /\ ~Throws(customUpdate[subscribed[t][1]]) )
              => /\ result = Ok
                 /\ CallbackEntries =
                       <<Entry("callback", subscribed[t][1],
                               customUpdate[subscribed[t][1]],
                               [eventType |-> t, data |-> call.data])>>

----------------------------------------------------------------------------
(* C7 *)

\* C7: as long as no unsubscribe has removed an observer from a tag,
\* notifyAllSubscribers(tag, data) invokes the subscribers of the tag in
\* the order in which they were subscribed: the observers it invokes are
\* the first ones subscribed, in subscription order, and they are all the
\* subscribers when none of them rejects the tag or throws.
C7_NotificationOrder ==
    ( /\ call.op = "notifyAllSubscribers"
      /\ Accepted(call.eventType)
      /\ unsubscribed[call.eventType] = {} ) =>
        LET t == call.eventType IN
        /\ IsPrefix(Updates, subscribed[t])
        /\ result = Ok => Updates = subscribed[t]
        /\ (WellBehaved(t) /\ subscribed[t] # <<>>)
              => (result = Ok /\ Updates = subscribed[t])

\* a notification of two different observers, the second subscribed first
\* in name order
C7_Witness ==
    /\ call.op = "notifyAllSubscribers"
    /\ result = Ok
    /\ unsubscribed[call.eventType] = {}
    /\ Updates = <<"o2", "o1">>
    /\ \E t \in DOMAIN subscribed :
          t # call.eventType /\ subscribed[t] # <<>>

----------------------------------------------------------------------------
(* C8 *)

\* C8: an observer subscribed n times to a tag (n at least 2), and not
\* unsubscribed, has its callback invoked exactly n times by each
\* notifyAllSubscribers on that tag. (Stated for observers that accept the
\* tag and whose callbacks do not throw.)
C8_NoDeduplication ==
    ( /\ call.op = "notifyAllSubscribers"
      /\ Accepted(call.eventType)
      /\ WellBehaved(call.eventType) ) =>
        \A o \in Range(subscribed[call.eventType]) :
            ( /\ customUpdate[o] # Undefined
              /\ Occurrences(subscribed[call.eventType], o) >= 2 ) =>
                Cardinality({i \in 1..Len(CallbackEntries) :
                                CallbackEntries[i].observer = o})
                  = Occurrences(subscribed[call.eventType], o)

----------------------------------------------------------------------------
(* C9 *)

\* the position in arr of the first observer whose callback throws, when
\* the loop of notifyAllSubscribers(t, _) reaches it; 0 when it reaches none
FirstThrow(arr, t) ==
    IF \E k \in 1..Len(arr) :
          /\ \A j \in 1..k : arr[j] # Hole /\ acceptedEventType[arr[j]] = t
          /\ \A j \in 1..(k - 1) : ~Throws(customUpdate[arr[j]])
          /\ Throws(customUpdate[arr[k]])
    THEN CHOOSE k \in 1..Len(arr) :
          /\ \A j \in 1..k : arr[j] # Hole /\ acceptedEventType[arr[j]] = t
          /\ \A j \in 1..(k - 1) : ~Throws(customUpdate[arr[j]])
          /\ Throws(customUpdate[arr[k]])
    ELSE 0

\* C9: when the callback of a subscriber fails during
\* notifyAllSubscribers(tag, data), the failure reaches the caller, no
\* subscriber placed later in the list is invoked, and every subscriber
\* placed earlier has been invoked exactly once.
C9_FailurePropagates ==
    ( /\ call.op = "notifyAllSubscribers"
      /\ Accepted(call.eventType)
      /\ FirstThrow(subscribers[call.eventType], call.eventType) > 0 ) =>
        LET arr == subscribers[call.eventType]
            k == FirstThrow(arr, call.eventType)
        IN /\ result = CallbackError
           /\ Updates = SubSeq(arr, 1, k)
           /\ trace[Len(trace)] =
                 Entry("callback", arr[k], customUpdate[arr[k]],
                       [eventType |-> call.eventType, data |-> call.data])

\* a failing callback with a subscriber before it and one after it
C9_Witness ==
    /\ call.op = "notifyAllSubscribers"
    /\ Accepted(call.eventType)
    /\ FirstThrow(subscribers[call.eventType], call.eventType) = 2
    /\ Len(subscribers[call.eventType]) = 3
    /\ subscribers[call.eventType][3] # Hole
    /\ result = CallbackError

----------------------------------------------------------------------------
(* C10 *)

\* C10: _update(payload) fails with the tag-mismatch error whenever
\* payload.eventType differs from the observer's accepted tag, and then the
\* callback is not invoked, whether or not one is set; this holds of a
\* direct call and of every _update a notifyAllSubscribers makes.
C10_TagMismatch ==
    /\ ( call.op = "_update"
         /\ call.eventType # acceptedEventType[call.observer] )
          => (result = TagMismatch /\ CallbackEntries = <<>>)
    /\ \A i \in 1..Len(trace) :
          ( /\ trace[i].kind = "update"
            /\ trace[i].payload.eventType
                  # acceptedEventType[trace[i].observer] )
             => (result = TagMismatch /\ i = Len(trace))

\* a mismatching _update of an observer that has a callback
C10_Witness ==
    /\ call.op = "_update"
    /\ call.eventType # acceptedEventType[call.observer]
    /\ customUpdate[call.observer] = "cb1"
    /\ result = TagMismatch

----------------------------------------------------------------------------
(* C11 *)

\* the console.warn diagnostics of the last call, in order
WarnEntries == SelectSeq(trace, LAMBDA e : e.kind = "warn")

\* C11: _update(payload) with a matching tag never fails on account of the
\* callback slot: with no callback set it throws nothing, invokes nothing
\* and emits one diagnostic; with a callback set it invokes it exactly once
\* with the payload, and fails only if the callback itself throws.
C11_MissingCallbackIsNotFatal ==
    ( /\ call.op = "_update"
      /\ call.eventType = acceptedEventType[call.observer] ) =>
        LET o == call.observer
            payload == [eventType |-> call.eventType, data |-> call.data]
        IN /\ customUpdate[o] = Undefined
                => /\ result = Ok
                   /\ CallbackEntries = <<>>
                   /\ WarnEntries = <<Entry("warn", o, Undefined, payload)>>
           /\ customUpdate[o] # Undefined
                => /\ CallbackEntries =
                        <<Entry("callback", o, customUpdate[o], payload)>>
                   /\ WarnEntries = <<>>
                   /\ result = IF Throws(customUpdate[o])
                               THEN CallbackError ELSE Ok

\* a matching _update of an observer without callback
C11_Witness ==
    /\ call.op = "_update"
    /\ call.eventType = acceptedEventType[call.observer]
    /\ customUpdate[call.observer] = Undefined
    /\ result = Ok
    /\ Len(WarnEntries) = 1

----------------------------------------------------------------------------
(* C12 *)

\* the event type the last touchend notified
EmittedTag == NotifyEntries[1].payload.eventType

\* C12: a touch-end classified as a tag that has a callback registered
\* invokes that callback exactly once and no callback of another tag; for
\* the four slide tags the payload is {eventType: tag, data: touch state},
\* the touch state being that of the gesture just ended, with touch_moved
\* true; for single_touch the data is null.
C12_RegisteredCallbackInvokedOnce ==
    call.op = "touchend" =>
        /\ \A i \in 1..Len(CallbackEntries) :
              CallbackEntries[i].observer = EmittedTag
        /\ customUpdate[EmittedTag] # Undefined =>
              CallbackEntries =
                 <<Entry("callback", EmittedTag, customUpdate[EmittedTag],
                         [eventType |-> EmittedTag,
                          data |-> IF EmittedTag = "single_touch"
                                   THEN NullData ELSE touchState])>>
        /\ EmittedTag # "single_touch" => touchState.touch_moved

\* a slide_left with a callback registered for it and for single_touch
C12_Witness ==
    /\ call.op = "touchend"
    /\ EmittedTag = "slide_left"
    /\ customUpdate["slide_left"] = "cb1"
    /\ customUpdate["single_touch"] = "cb1"
    /\ Len(CallbackEntries) = 1
    /\ CallbackEntries[1].payload.data.touch_start = [x |-> 101, y |-> 50]
    /\ result = Ok

----------------------------------------------------------------------------
(* C13 *)

\* C13: removeEventListener(tag) clears the callback of the tag; while it
\* is cleared every touch-end classified as the tag invokes no callback,
\* raises no error and emits the missing-callback diagnostic; and it stays
\* cleared until on / addEventListener is called with the tag.
C13_RemovedListenerNotInvoked ==
    [][/\ ( /\ call'.op = "removeEventListener"
            /\ call'.eventType \in InstructionEventType )
          => /\ result' = Ok
             /\ customUpdate'[call'.eventType] = Undefined
       /\ ( /\ call'.op = "touchend"
            /\ customUpdate'[EmittedTag'] = Undefined )
          => /\ result' = Ok
             /\ CallbackEntries' = <<>>
             /\ Len(WarnEntries') = 1
             /\ WarnEntries'[1].observer = EmittedTag'
       /\ \A t \in InstructionEventType :
             (customUpdate[t] = Undefined /\ customUpdate'[t] # Undefined)
                => /\ call'.op \in {"on", "addEventListener"}
                   /\ call'.eventType = t
      ]_vars

\* a slide_up that finds its callback cleared while others are registered
C13_Witness ==
    /\ call.op = "touchend"
    /\ EmittedTag = "slide_up"
    /\ customUpdate["slide_up"] = Undefined
    /\ customUpdate["slide_down"] # Undefined
    /\ result = Ok
    /\ Len(WarnEntries) = 1

----------------------------------------------------------------------------
(* C14 *)

\* C14: every touch-end, whatever touch signals came before it (none
\* included), makes exactly one notifyAllSubscribers call, for one of the
\* five instruction tags.
C14_OneNotificationPerTouchEnd ==
    call.op = "touchend" =>
        /\ Len(NotifyEntries) = 1
        /\ EmittedTag \in InstructionEventType

\* a touch-end on the touch state the Interface is constructed with
C14_Witness ==
    /\ call.op = "touchend"
    /\ touchState = TouchState0
    /\ gesture = NoGesture
    /\ Len(NotifyEntries) = 1

----------------------------------------------------------------------------
(* C15 *)

\* C15: in every reachable state of an Observable the keys of subscribers
\* are exactly the accepted tags given at construction, and right after
\* construction every accepted tag maps to an empty list.
C15_KeysAreAcceptedTags ==
    /\ DOMAIN subscribers = Range(acceptedEventTypes)
    /\ call = NoCall =>
          \A t \in Range(acceptedEventTypes) : subscribers[t] = <<>>

\* a subscribe refused for its tag, on an Observable that accepts one tag
\* and has had an observer removed from it
C15_Witness ==
    /\ call.op = "subscribe"
    /\ result = UnacceptedEventTypesError
    /\ call.eventType = "slide_right"
    /\ DOMAIN subscribers = {"slide_left"}
    /\ includes(subscribers["slide_left"], Hole)

----------------------------------------------------------------------------
(* C16 *)

----------------------------------------------------------------------------
(* C17 *)

\* C17: in the earlier Observable, subscribe(tag, observer) succeeds and
\* appends the observer for every tag that is a member of the accepted
\* list, and fails only for tags that are not members of it.
C17_EarlierSubscribeByMembership ==
    call.op = "subscribe" =>
       IF call.eventType \in Range(acceptedEventTypes)
       THEN /\ result = Ok
            /\ call.eventType \in DOMAIN subscribers
            /\ subscribers[call.eventType] # <<>>
            /\ subscribers[call.eventType]
                  [Len(subscribers[call.eventType])] = call.observer
       ELSE result # Ok

----------------------------------------------------------------------------
(* C18 *)

\* the tag of a gesture from start to last, by the documented thresholds
CycleTag(start, last) ==
    IF start.x - last.x > SlideThreshold THEN "slide_left"
    ELSE IF start.x - last.x < -SlideThreshold THEN "slide_right"
    ELSE IF start.y - last.y > SlideThreshold THEN "slide_up"
    ELSE IF start.y - last.y < -SlideThreshold THEN "slide_down"
    ELSE "single_touch"

\* C18: the tag emitted at a touch-end depends only on the signals since
\* the latest touch-start: with no touch-move since then it is single_touch,
\* whatever touch_last_pos and touch_moved earlier cycles left; with
\* touch-moves it is classified from the position of that touch-start and
\* of the last of those touch-moves.
C18_OwnCycleOnly ==
    (call.op = "touchend" /\ gesture.start # NoPoint) =>
        /\ Len(NotifyEntries) = 1
        /\ EmittedTag = IF gesture.last = NoPoint THEN "single_touch"
                        ELSE CycleTag(gesture.start, gesture.last)

\* a touch-end of a cycle without touch-move, while touch_last_pos still
\* holds a position of an earlier cycle that is a slide away from
\* touch_start
C18_Witness ==
    /\ call.op = "touchend"
    /\ gesture.start # NoPoint
    /\ gesture.last = NoPoint
    /\ Dx > SlideThreshold
    /\ EmittedTag = "single_touch"

----------------------------------------------------------------------------
(* C19 *)

\* C19: touch-start sets touch_start to the delivered position and
\* touch_moved to false and leaves touch_last_pos unchanged; touch-move sets
\* touch_last_pos to the delivered position and touch_moved to true and
\* leaves touch_start unchanged; touch-end changes no field of the touch
\* state; none of the three changes a subscriber list or a registered
\* callback.
C19_TouchFrame ==
    [][/\ call'.op = "touchstart" =>
             /\ touchState'.touch_start = call'.data
             /\ touchState'.touch_moved = FALSE
             /\ touchState'.touch_last_pos = touchState.touch_last_pos
       /\ call'.op = "touchmove" =>
             /\ touchState'.touch_last_pos = call'.data
             /\ touchState'.touch_moved = TRUE
             /\ touchState'.touch_start = touchState.touch_start
       /\ call'.op = "touchend" => touchState' = touchState
       /\ call'.op \in {"touchstart", "touchmove", "touchend"} =>
             /\ subscribers' = subscribers
             /\ customUpdate' = customUpdate
      ]_vars

\* a touch-start that found touch_last_pos and a callback left by earlier
\* calls and kept both
C19_Witness ==
    /\ call.op = "touchstart"
    /\ touchState.touch_start = [x |-> 0, y |-> 50]
    /\ touchState.touch_last_pos = [x |-> 101, y |-> 101]
    /\ ~touchState.touch_moved
    /\ customUpdate["slide_up"] = "cb1"

----------------------------------------------------------------------------
(* C20 *)

\* C20: Interface keeps one callback per tag: on / addEventListener(tag, cb)
\* makes cb the callback of the tag, whatever callback or none (after
\* removeEventListener) the tag had, and leaves the callbacks of the other
\* four tags unchanged; a touch-end classified as the tag invokes the
\* callback the tag has at that moment exactly once and no other.
C20_OneCallbackPerTag ==
    [][/\ ( /\ call'.op \in {"on", "addEventListener"}
            /\ call'.eventType \in InstructionEventType )
          => /\ result' = Ok
             /\ customUpdate'[call'.eventType] = call'.observer
             /\ \A t \in InstructionEventType \ {call'.eventType} :
                   customUpdate'[t] = customUpdate[t]
       /\ ( /\ call'.op = "touchend"
            /\ customUpdate[EmittedTag'] # Undefined )
          => /\ Len(CallbackEntries') = 1
             /\ CallbackEntries'[1].observer = EmittedTag'
             /\ CallbackEntries'[1].callback = customUpdate[EmittedTag']
      ]_vars

\* a touch-end classified slide_right invoking the second callback, once,
\* while the other tags hold the first one
C20_Witness ==
    /\ call.op = "touchend"
    /\ EmittedTag = "slide_right"
    /\ customUpdate["slide_right"] = "cbThrow"
    /\ \A t \in InstructionEventType \ {"slide_right"} :
          customUpdate[t] = "cb1"
    /\ Len(CallbackEntries) = 1
    /\ CallbackEntries[1].callback = "cbThrow"

----------------------------------------------------------------------------
(* C21 *)

\* C21: a successful subscribe(t, o) appends o at the end of t's list and
\* changes nothing else (the lists of the other tags and the earlier
\* elements of t's list stay as they were); a notifyAllSubscribers call
\* whose callbacks call neither subscribe nor unsubscribe leaves every
\* subscriber list unchanged.
C21_SubscribeFrame ==
    [][/\ (call'.op = "subscribe" /\ result' = Ok) =>
             /\ DOMAIN subscribers' = DOMAIN subscribers
             /\ subscribers'[call'.eventType] =
                   Append(subscribers[call'.eventType], call'.observer)
             /\ \A t \in DOMAIN subscribers \ {call'.eventType} :
                   subscribers'[t] = subscribers[t]
             /\ acceptedEventTypes' = acceptedEventTypes
             /\ acceptedEventType' = acceptedEventType
             /\ customUpdate' = customUpdate
       /\ call'.op = "notifyAllSubscribers" => subscribers' = subscribers
      ]_vars

\* a subscribe that found an element in the list of its tag and one in the
\* list of the other tag
C21_Witness ==
    /\ call.op = "subscribe"
    /\ result = Ok
    /\ call.eventType = "slide_left"
    /\ call.observer = "o1"
    /\ subscribers["slide_left"] = <<"o2", "o1">>
    /\ "slide_right" \in DOMAIN subscribers
    /\ subscribers["slide_right"] = <<"o2">>

----------------------------------------------------------------------------
(* C22 *)

\* C22: when the same observer occurs several times in a tag's list, one
\* unsubscribe(tag, observer) removes every occurrence of it, not only the
\* first, and leaves the entries of all other observers in place.
C22_UnsubscribeRemovesEveryOccurrence ==
    [][( /\ call'.op = "unsubscribe"
         /\ Accepted(call'.eventType)
         /\ Occurrences(subscribers[call'.eventType], call'.observer) >= 2 )
       => LET before == subscribers[call'.eventType]
              after == subscribers'[call'.eventType]
          IN /\ ~includes(after, call'.observer)
             /\ Len(after) = Len(before)
             /\ \A i \in 1..Len(before) :
                   before[i] # call'.observer => after[i] = before[i]
             /\ \A t \in DOMAIN subscribers \ {call'.eventType} :
                   subscribers'[t] = subscribers[t]
      ]_vars

\* an unsubscribe of o1 that left two emptied slots around the entry of o2
C22_Witness ==
    /\ call.op = "unsubscribe"
    /\ call.eventType = "slide_left"
    /\ call.observer = "o1"
    /\ subscribers["slide_left"] = <<Hole, "o2", Hole>>
    /\ subscribed["slide_left"] = <<"o2">>

----------------------------------------------------------------------------
(* C23 *)

\* C23: in every reachable state of an Interface each of the five tags has
\* exactly one subscribed observer, and the tag that observer accepts is
\* the tag it is subscribed under; hence no touch-end fails with
\* UnacceptedEventType, NoSubscribers or TagMismatch, with or without
\* callbacks registered.
C23_InterfaceWiring ==
    /\ DOMAIN subscribers = InstructionEventType
    /\ \A t \in InstructionEventType :
          /\ Len(subscribers[t]) = 1
          /\ subscribers[t][1] # Hole
          /\ acceptedEventType[subscribers[t][1]] = t
    /\ call.op = "touchend" =>
          result \notin {UnacceptedEventTypesError, NoSubscribersError,
                         TagMismatch}

\* a slide_down reaching its observer, which has no callback, after
\* callbacks were registered for other tags
C23_Witness ==
    /\ call.op = "touchend"
    /\ EmittedTag = "slide_down"
    /\ Updates = <<"slide_down">>
    /\ customUpdate["slide_down"] = Undefined
    /\ customUpdate["slide_up"] = "cbThrow"
    /\ result = Ok

----------------------------------------------------------------------------
(* C25 *)

\* C25: on(tag, cb), addEventListener(tag, cb) and removeEventListener(tag)
\* with a tag that is none of the five instruction tags fail, and the
\* failing call leaves the callbacks of the five observers and all
\* subscriber lists unchanged.
C25_UnknownTagFails ==
    [][( /\ call'.op \in {"on", "addEventListener", "removeEventListener"}
         /\ call'.eventType \notin InstructionEventType )
       => /\ result' # Ok
          /\ customUpdate' = customUpdate
          /\ subscribers' = subscribers
      ]_vars

\* a removeEventListener("double touch") failing while callbacks are
\* registered
C25_Witness ==
    /\ call.op = "removeEventListener"
    /\ call.eventType = UnknownTag
    /\ result = TypeError
    /\ customUpdate["slide_left"] = "cb1"
    /\ customUpdate["single_touch"] = "cbThrow"

----------------------------------------------------------------------------
(* C24 *)

\* the slots of arr whose observer has the subscribing callback
Subscribing(arr) ==
    {i \in 1..Len(arr) : customUpdate[arr[i]] = "cbSubscribe"}

\* C24: notifyAllSubscribers iterates the live list: an observer that a
\* callback subscribes to the tag during notifyAllSubscribers(tag, data) is
\* notified within the same call, after all observers that were in the
\* list already.
C24_LiveIteration ==
    [][( /\ call'.op = "notifyAllSubscribers"
         /\ Accepted(call'.eventType)
         /\ result' = Ok )
       => LET before == subscribers[call'.eventType]
              after == subscribers'[call'.eventType]
          IN /\ IsPrefix(before, after)
             /\ Len(after) = Len(before) + Cardinality(Subscribing(before))
             /\ \A i \in (Len(before) + 1)..Len(after) :
                   after[i] = SubscribedByCallback
             /\ Updates' = after
      ]_vars

\* a notification of o1 and o2 during which the callback of o1 subscribed
\* o3, which was notified last
C24_Witness ==
    /\ call.op = "notifyAllSubscribers"
    /\ result = Ok
    /\ customUpdate["o1"] = "cbSubscribe"
    /\ customUpdate["o2"] = "cb1"
    /\ subscribers["slide_left"] = <<"o1", "o2", "o3">>
    /\ subscribed["slide_left"] = <<"o1", "o2", "o3">>
    /\ Updates = <<"o1", "o2", "o3">>
    /\ Len(CallbackEntries) = 3

====
